---- MODULE Spec2Model ----
(***************************************************************************)
(* Model of sebze_meyve_fisi_quickwin_v2.py: the customer directory        *)
(* (normalisation, lookup, add/remove, JSON persistence) and the receipt   *)
(* submit path (validation, atomic write, print).                          *)
(*                                                                         *)
(* Text is modelled as a sequence of characters.  The characters are named *)
(* by ASCII strings:                                                       *)
(*   "l" U+006C   "L" U+004C   "i" U+0069   "I" U+0049                     *)
(*   "Id" U+0130 (capital I with dot above)   "di" U+0131 (dotless i)      *)
(*   "dot" U+0307 (combining dot above)       "sp" U+0020 (space)          *)
(* No precomposed character exists for l, L, i or dotless i followed by    *)
(* U+0307; the only composition in this alphabet is I + U+0307 = U+0130.   *)
(***************************************************************************)
EXTENDS Integers, Sequences, FiniteSets, TLC

Chars == {"l", "L", "i", "I", "Id", "di", "dot", "sp"}

\* Unicode code point order of the alphabet (0x20 < 0x49 < 0x4C < 0x69 <
\* 0x6C < 0x130 < 0x131 < 0x307), as used by Python's str comparison.
CodeRank(c) ==
  CASE c = "sp" -> 0
    [] c = "I" -> 1
    [] c = "L" -> 2
    [] c = "i" -> 3
    [] c = "l" -> 4
    [] c = "Id" -> 5
    [] c = "di" -> 6
    [] c = "dot" -> 7

RECURSIVE StrLess(_, _)
StrLess(s, t) ==
  IF t = <<>> THEN FALSE
  ELSE IF s = <<>> THEN TRUE
  ELSE IF Head(s) = Head(t) THEN StrLess(Tail(s), Tail(t))
  ELSE CodeRank(Head(s)) < CodeRank(Head(t))

RECURSIVE Flatten(_)
Flatten(ss) == IF ss = <<>> THEN <<>> ELSE Head(ss) \o Flatten(Tail(ss))

\* unicodedata.normalize("NFKC", s): canonical composition of I + U+0307.
RECURSIVE NFKC(_)
NFKC(s) ==
  IF s = <<>> THEN <<>>
  ELSE IF Len(s) >= 2 /\ s[1] = "I" /\ s[2] = "dot"
       THEN <<"Id">> \o NFKC(SubSeq(s, 3, Len(s)))
       ELSE <<Head(s)>> \o NFKC(Tail(s))

\* str.split(): the maximal runs of non-whitespace characters.
RECURSIVE SplitFrom(_, _)
SplitFrom(s, cur) ==
  IF s = <<>> THEN (IF cur = <<>> THEN <<>> ELSE <<cur>>)
  ELSE IF Head(s) = "sp"
       THEN (IF cur = <<>> THEN <<>> ELSE <<cur>>) \o SplitFrom(Tail(s), <<>>)
       ELSE SplitFrom(Tail(s), Append(cur, Head(s)))

Split(s) == SplitFrom(s, <<>>)

\* " ".join(words)
RECURSIVE JoinSp(_)
JoinSp(ws) ==
  IF ws = <<>> THEN <<>>
  ELSE IF Len(ws) = 1 THEN ws[1]
  ELSE ws[1] \o <<"sp">> \o JoinSp(Tail(ws))

\* str.strip()
RECURSIVE LStrip(_)
LStrip(s) == IF s # <<>> /\ Head(s) = "sp" THEN LStrip(Tail(s)) ELSE s

RECURSIVE RStrip(_)
RStrip(s) ==
  IF s # <<>> /\ s[Len(s)] = "sp" THEN RStrip(SubSeq(s, 1, Len(s) - 1)) ELSE s

Strip(s) == RStrip(LStrip(s))

\* str.casefold(), per character (full case folding: U+0130 -> U+0069 U+0307).
FoldChar(c) ==
  CASE c = "L" -> <<"l">>
    [] c = "I" -> <<"i">>
    [] c = "Id" -> <<"i", "dot">>
    [] OTHER -> <<c>>

CaseFold(s) == Flatten([k \in 1..Len(s) |-> FoldChar(s[k])])

\* str.lower(), per character (full lowercase mapping: U+0130 -> U+0069 U+0307).
LowerChar(c) ==
  CASE c = "L" -> <<"l">>
    [] c = "I" -> <<"i">>
    [] c = "Id" -> <<"i", "dot">>
    [] OTHER -> <<c>>

Lower(s) == Flatten([k \in 1..Len(s) |-> LowerChar(s[k])])

\* Title-casing of one character, as str.capitalize() applies to the first.
TitleChar(c) ==
  CASE c = "l" -> <<"L">>
    [] c = "i" -> <<"I">>
    [] c = "di" -> <<"I">>
    [] OTHER -> <<c>>

\* str.capitalize(): first character title-cased, the rest lower-cased.
Capitalize(w) ==
  IF w = <<>> THEN <<>> ELSE TitleChar(Head(w)) \o Lower(Tail(w))

\* _normalize_for_comparison
Normalize(name) == CaseFold(JoinSp(Split(Strip(NFKC(name)))))

\* turkish_title, the inner function of _format_for_display
TurkishTitle(word) ==
  LET w == Lower(Strip(word))
  IN IF w # <<>> /\ Head(w) = "i" THEN <<"Id">> \o Tail(w) ELSE Capitalize(w)

\* _format_for_display
Display(name) ==
  LET ws == Split(Strip(name))
  IN JoinSp([k \in 1..Len(ws) |-> TurkishTitle(ws[k])])

(***************************************************************************)
(* difflib.SequenceMatcher and difflib.get_close_matches.  Sequences here  *)
(* are far shorter than 200 elements, so the automatic junk heuristic of   *)
(* SequenceMatcher never applies.                                          *)
(***************************************************************************)

\* SequenceMatcher.find_longest_match(alo, ahi, blo, bhi) on a[alo..ahi] and
\* b[blo..bhi] (1-based, inclusive): the longest common block, of those the
\* one starting earliest in a, of those the one starting earliest in b.
\* The result is <<i, j, k>>; k = 0 when no element matches.
FindLongestMatch(a, alo, ahi, b, blo, bhi) ==
  LET blocks == {t \in (alo..ahi) \X (blo..bhi) \X (1..(ahi - alo + 1)) :
                   /\ t[1] + t[3] - 1 <= ahi
                   /\ t[2] + t[3] - 1 <= bhi
                   /\ \A d \in 0..(t[3] - 1) : a[t[1] + d] = b[t[2] + d]}
      Better(x, y) == \/ x[3] > y[3]
                      \/ x[3] = y[3] /\ x[1] < y[1]
                      \/ x[3] = y[3] /\ x[1] = y[1] /\ x[2] < y[2]
  IN IF blocks = {} THEN <<alo, blo, 0>>
     ELSE CHOOSE x \in blocks : \A y \in blocks \ {x} : Better(x, y)

\* The total size of SequenceMatcher.get_matching_blocks(): the longest block,
\* then recursively the pieces to its left and to its right.
RECURSIVE MatchCount(_, _, _, _, _, _)
MatchCount(a, alo, ahi, b, blo, bhi) ==
  IF alo > ahi \/ blo > bhi THEN 0
  ELSE LET m == FindLongestMatch(a, alo, ahi, b, blo, bhi)
       IN IF m[3] = 0 THEN 0
          ELSE m[3]
               + MatchCount(a, alo, m[1] - 1, b, blo, m[2] - 1)
               + MatchCount(a, m[1] + m[3], ahi, b, m[2] + m[3], bhi)

\* SequenceMatcher(None, a, b).ratio() as the fraction <<numerator, denominator>>:
\* 2.0 * matches / (len(a) + len(b)), and 1.0 when both are empty.
Ratio(a, b) ==
  IF Len(a) + Len(b) = 0 THEN <<1, 1>>
  ELSE <<2 * MatchCount(a, 1, Len(a), b, 1, Len(b)), Len(a) + Len(b)>>

\* ratio >= cutoff, the cutoff given in tenths (7 for 0.7)
RatioAtLeast(r, tenths) == 10 * r[1] >= tenths * r[2]

RatioLess(r, q) == r[1] * q[2] < q[1] * r[2]

\* get_close_matches(word, possibilities, n, cutoff): the n best-scoring
\* possibilities with ratio >= cutoff, best first; heapq.nlargest orders the
\* (score, x) pairs, so equal scores are ordered by the strings themselves.
\* SequenceMatcher is used with seq2 = word and seq1 = the possibility;
\* real_quick_ratio and quick_ratio are upper bounds of ratio and filter nothing
\* that ratio would accept.
RECURSIVE NLargest(_, _, _)
NLargest(n, word, pool) ==
  IF n = 0 \/ pool = {} THEN <<>>
  ELSE LET Before(x, y) == \/ RatioLess(Ratio(y, word), Ratio(x, word))
                           \/ /\ Ratio(x, word)[1] * Ratio(y, word)[2]
                                   = Ratio(y, word)[1] * Ratio(x, word)[2]
                              /\ StrLess(y, x)
           best == CHOOSE x \in pool : \A y \in pool \ {x} : Before(x, y)
       IN <<best>> \o NLargest(n - 1, word, pool \ {best})

GetCloseMatches(word, possibilities, n, tenths) ==
  NLargest(n, word,
           {possibilities[k] : k \in {j \in 1..Len(possibilities) :
               RatioAtLeast(Ratio(possibilities[j], word), tenths)}})

(***************************************************************************)
(* Customer records and the customer file.                                 *)
(***************************************************************************)

\* Customer(name=...): phone and address default to ''.
Customer(name) == [name |-> name, phone |-> "", address |-> ""]

\* Customer.to_dict
ToDict(c) == [name |-> c.name, phone |-> c.phone, address |-> c.address]

\* Customer.from_dict: data.get(key, '') for each of the three keys.
FromDict(d) ==
  [name    |-> IF "name" \in DOMAIN d THEN d.name ELSE <<>>,
   phone   |-> IF "phone" \in DOMAIN d THEN d.phone ELSE "",
   address |-> IF "address" \in DOMAIN d THEN d.address ELSE ""]

\* The customer file is missing, holds text json.load rejects ("garbage"),
\* holds JSON that is not a list ("notlist"), or holds a list of objects.
FileOf(kind, data) == [kind |-> kind, data |-> data]

\* load_customers: the list in the file, [] in every other case.
LoadCustomers(f) ==
  IF f.kind = "list" THEN [k \in 1..Len(f.data) |-> FromDict(f.data[k])] ELSE <<>>

\* load_customers logs only when reading or parsing raised.
LoadLogs(f) == IF f.kind = "garbage" THEN {"load_customers failed"} ELSE {}

\* How one call of save_customers can end: the file is written; open() raises
\* and the file is untouched; or the write raises after open('w') truncated it.
SaveOutcomes == {"ok", "open_fail", "write_fail"}

\* save_customers: the file after the call.  Every exception is caught.
SaveCustomers(f, cs, outcome) ==
  CASE outcome = "ok" -> FileOf("list", [k \in 1..Len(cs) |-> ToDict(cs[k])])
    [] outcome = "open_fail" -> f
    [] outcome = "write_fail" -> FileOf("garbage", <<>>)

SaveLogs(outcome) == IF outcome = "ok" THEN {} ELSE {"save_customers failed"}

\* The body of _find_customer_by_name with the cutoff of its get_close_matches
\* call in tenths: <<>> for None, <<c>> for a customer c.
FindCustomerWithCutoff(cs, name, tenths) ==
  IF name = <<>> THEN <<>>
  ELSE LET key   == Normalize(name)
           exact == {k \in 1..Len(cs) : Normalize(cs[k].name) = key}
           \* dict comprehension: keys in first-insertion order, each key
           \* mapped to the last customer that has it
           firsts == {k \in 1..Len(cs) :
                        \A j \in 1..(k - 1) : Normalize(cs[j].name) # Normalize(cs[k].name)}
           keys  == [n \in 1..Cardinality(firsts) |->
                        Normalize(cs[CHOOSE k \in firsts :
                                       Cardinality({j \in firsts : j < k}) = n - 1].name)]
           LastWith(kk) == cs[CHOOSE k \in 1..Len(cs) :
                                /\ Normalize(cs[k].name) = kk
                                /\ \A j \in (k + 1)..Len(cs) : Normalize(cs[j].name) # kk]
           close == GetCloseMatches(key, keys, 1, tenths)
       IN IF exact # {}
          THEN <<cs[CHOOSE k \in exact : \A j \in exact : k <= j]>>
          ELSE IF close # <<>> THEN <<LastWith(close[1])>> ELSE <<>>

\* A lookup that accepts the looser cutoff 0.6 of the typing filter.
FindCustomerByName_LooseCutoff(cs, name) == FindCustomerWithCutoff(cs, name, 6)

\* _find_customer_by_name: get_close_matches(key, ..., n=1, cutoff=0.7)
FindCustomerByName(cs, name) == FindCustomerWithCutoff(cs, name, 7)

\* sorted(names, key=str.lower): insertion of x after every element whose key
\* is not greater (the sort is stable).
RECURSIVE InsertByLower(_, _)
InsertByLower(sorted, x) ==
  IF sorted = <<>> THEN <<x>>
  ELSE IF StrLess(Lower(x), Lower(Head(sorted)))
       THEN <<x>> \o sorted
       ELSE <<Head(sorted)>> \o InsertByLower(Tail(sorted), x)

RECURSIVE SortByLower(_)
SortByLower(names) ==
  IF names = <<>> THEN <<>>
  ELSE InsertByLower(SortByLower(SubSeq(names, 1, Len(names) - 1)), names[Len(names)])

\* _refresh_listbox: every customer name, sorted by name.lower().
RefreshListbox(cs) == SortByLower([k \in 1..Len(cs) |-> cs[k].name])

\* _on_name_typing: the set of names shown for the typed text.
IsSubstring(x, y) ==
  \E k \in 0..(Len(y) - Len(x)) : SubSeq(y, k + 1, k + Len(x)) = x

NameMatches(cs, typed_raw) ==
  LET norm_typed == Normalize(typed_raw)
      sub == {cs[k].name : k \in {j \in 1..Len(cs) :
                 norm_typed # <<>> /\ IsSubstring(norm_typed, Normalize(cs[j].name))}}
      firsts == {k \in 1..Len(cs) :
                   \A j \in 1..(k - 1) : Normalize(cs[j].name) # Normalize(cs[k].name)}
      keys == [n \in 1..Cardinality(firsts) |->
                 Normalize(cs[CHOOSE k \in firsts :
                                Cardinality({j \in firsts : j < k}) = n - 1].name)]
      LastName(kk) == cs[CHOOSE k \in 1..Len(cs) :
                           /\ Normalize(cs[k].name) = kk
                           /\ \A j \in (k + 1)..Len(cs) : Normalize(cs[j].name) # kk].name
      close == IF norm_typed # <<>> THEN GetCloseMatches(norm_typed, keys, 10, 6) ELSE <<>>
  IN sub \cup {LastName(close[k]) : k \in 1..Len(close)}

\* sorted(matches, key=str.lower) over a set: names with equal keys come in
\* the set's iteration order, which the program does not control.
SortedSetOrders(names) ==
  {s \in [1..Cardinality(names) -> names] :
     /\ \A a, b \in 1..Cardinality(names) : a # b => s[a] # s[b]
     /\ \A a \in 1..(Cardinality(names) - 1) : ~StrLess(Lower(s[a + 1]), Lower(s[a]))}

(***************************************************************************)
(* Numbers typed into the form.  A number text is a sequence of the        *)
(* characters "0".."9", ",", ".", "-", "n", "a", "x".  A float is          *)
(* [nan |-> BOOLEAN, tenths |-> Int]: not-a-number, or a value in tenths.  *)
(***************************************************************************)
Float(t) == [nan |-> FALSE, tenths |-> t]
NaN == [nan |-> TRUE, tenths |-> 0]

\* value.replace(',', '.')
ReplaceComma(value) ==
  [k \in 1..Len(value) |-> IF value[k] = "," THEN "." ELSE value[k]]

\* float(text): <<>> when it raises ValueError, <<x>> when it returns x.
PyFloat(text) ==
  CASE text = <<"0">> -> <<Float(0)>>
    [] text = <<"3">> -> <<Float(30)>>
    [] text = <<"-", "1">> -> <<Float(-10)>>
    [] text = <<"2", ".", "5">> -> <<Float(25)>>
    [] text = <<"n", "a", "n">> -> <<NaN>>
    [] OTHER -> <<>>

\* _parse_number
ParseNumber(value) ==
  IF value = <<>> THEN Float(0)
  ELSE LET r == PyFloat(ReplaceComma(value))
       IN IF r = <<>> THEN Float(0) ELSE r[1]

\* x <= 0 on Python floats: every comparison with nan is False.
LeZero(x) == ~x.nan /\ x.tenths <= 0

\* x > 0 on Python floats
Positive(x) == ~x.nan /\ x.tenths > 0

\* The value calculate_total puts into total_var, kept as the two factors.
ComputedTotal(weight_text, price_text) ==
  [kind |-> "computed", weight |-> ParseNumber(weight_text),
   price |-> ParseNumber(price_text)]

\* total_var after total_var.set('0.00')
ZeroTotal == [kind |-> "literal", weight |-> Float(0), price |-> Float(0)]

\* _generate_receipt_text: the fields of the receipt that depend on the form.
GenerateReceiptText(customer, piece_count, weight, price) ==
  [name |-> customer.name, piece_count |-> piece_count, weight |-> weight,
   price |-> price]

(***************************************************************************)
(* Receipt files.  A path is [dir, stem, ext]; a file is absent (<<>>),    *)
(* partly written (<<"partial", text>>) or complete (<<"full", text>>).    *)
(***************************************************************************)
PathOf(dir, stem, ext) == [dir |-> dir, stem |-> stem, ext |-> ext]

\* path.with_suffix('.tmp'): the last suffix replaced.
WithSuffixTmp(path) == [path EXCEPT !.ext = "tmp"]

Absent == <<>>
Partial(text) == <<"partial", text>>
Full(text) == <<"full", text>>

\* _write_receipt_atomic, `raise` in its except clause: a failed write is
\* passed on to the caller.
AtomicWriteSwallows == FALSE

AtomicWriteReraises == TRUE

\* _do_print without its try/except: a failed or timed-out print raises.
DoPrintRaises_NoCatch(outcome) == outcome # "ok"

\* _do_print: whether the call raises.  except Exception catches the failure
\* of the print command and subprocess.TimeoutExpired alike.
DoPrintRaises(outcome) == FALSE

\* How one print attempt can end.
PrintOutcomes == {"ok", "failed", "timeout"}

(***************************************************************************)
(* Bounds and input sets.                                                  *)
(***************************************************************************)

\* Most customers the directory is let grow to.
MaxCustomers == 2

\* Most calls of save_customers that fail in one run.
MaxSaveFailures == 1

\* The outcomes the failure budget still allows, and the budget after one.
SaveAllowed(outcome, failures) == outcome = "ok" \/ failures < MaxSaveFailures

SaveCount(outcome, failures) == IF outcome = "ok" THEN failures ELSE failures + 1

\* Longest text given to the pure name functions.
MaxNameLen == 3

NamesUpTo(n) == UNION {[1..k -> Chars] : k \in 0..n}

\* Texts typed into the new-customer field.
RawNames ==
  {<<"sp">>, <<"l">>, <<"sp", "L">>, <<"i">>, <<"Id">>, <<"I", "dot">>}

\* Texts typed into the customer-name field of the form.
TypedNames == {<<>>, <<"l">>, <<"i">>}

\* Customer files found at start-up.  Lists hold no two names with the same
\* normalized key.
InitFiles ==
  {FileOf("missing", <<>>), FileOf("garbage", <<>>), FileOf("notlist", <<>>),
   FileOf("list", <<[name |-> <<"L", "i">>, phone |-> "555"]>>)}

\* Texts typed into the weight and the unit-price entries.
WeightTexts == {<<>>, <<"x">>, <<"0">>, <<"-", "1">>, <<"2", ",", "5">>, <<"n", "a", "n">>}
PriceTexts == {<<>>, <<"0">>, <<"3">>}

\* Texts in the customer-name entry when the receipt button is pressed.
FormNames == {<<"sp">>, <<"l", "i">>}

\* The receipt files: the name the save dialog suggests and the same name
\* typed with the extension .tmp.
Paths == {PathOf("d1", "fis", "txt"), PathOf("d1", "fis", "tmp")}

\* A complete receipt written before this run.
OldText == GenerateReceiptText(Customer(<<"L">>), <<"1">>, Float(10), Float(30))


(***************************************************************************)
(* State.                                                                  *)
(***************************************************************************)
VARIABLES
  phase,              \* "boot" before ReceiptApp.__init__ has run, then "running"
  customers,          \* self.customers
  file,               \* the content of CUSTOMER_FILE
  listbox,            \* the names shown in self.listbox, top to bottom
  new_customer_var,   \* self.new_customer_var
  customer_name_var,  \* self.customer_name_var
  ui,                 \* what the button handler that ran last did or showed;
                      \* "editing" once the receipt form has been edited since
  last_raw,           \* the text the last run of _add_new_customer read
  log,                \* the messages written to LOG_FILE
  save_failures,      \* how many calls of save_customers have failed
  weight_var,         \* self.weight_var
  price_per_kg_var,   \* self.price_per_kg_var
  piece_count_var,    \* self.piece_count_var
  total_var,          \* self.total_var
  last_save_dir,      \* self.last_save_dir, "" while the attribute is not set
  fs,                 \* the receipt files on disk
  pc,                 \* where print_receipt stands: "idle" when it is not running
  save_path,          \* save_path of the running or last print_receipt
  receipt_text,       \* receipt_text of the running or last print_receipt
  pre,                \* the in-memory state and the target file when the form
                      \* was last edited or print_receipt last started
  last_print,         \* <<>>, or <<outcome, file>> of the print attempt of the
                      \* running or last print_receipt
  arg, shown, found, step   \* input and results of the pure-function checks

dirVars == <<phase, customers, file, listbox, new_customer_var, customer_name_var,
             ui, last_raw, log, save_failures>>
rcptVars == <<weight_var, price_per_kg_var, piece_count_var, total_var,
              last_save_dir, fs, pc, save_path, receipt_text, pre, last_print>>
pureVars == <<arg, shown, found, step>>
vars == <<dirVars, rcptVars, pureVars, rcptVars>>

\* The in-memory state print_receipt could touch, and the file at path.
Snapshot(cs, name, weight, price, pieces, total, dir, target) ==
  [customers |-> cs, customer_name_var |-> name, weight_var |-> weight,
   price_per_kg_var |-> price, piece_count_var |-> pieces, total_var |-> total,
   last_save_dir |-> dir, target |-> target]

FormIdle ==
  /\ weight_var = <<>>
  /\ price_per_kg_var = <<>>
  /\ piece_count_var = <<>>
  /\ total_var = ZeroTotal
  /\ last_save_dir = ""
  /\ pc = "idle"
  /\ save_path = PathOf("d1", "fis", "txt")
  /\ receipt_text = OldText
  /\ last_print = <<>>

RcptIdle ==
  /\ FormIdle
  /\ fs = [p \in Paths |-> Absent]
  /\ pre = Snapshot(<<>>, <<>>, <<>>, <<>>, <<>>, ZeroTotal, "", Absent)

PureIdle == arg = <<>> /\ shown = <<>> /\ found = <<>> /\ step = "none"

Init ==
  /\ phase = "boot"
  /\ customers = <<>>
  /\ file \in InitFiles
  /\ listbox = <<>>
  /\ new_customer_var = <<>>
  /\ customer_name_var = <<>>
  /\ ui = "none"
  /\ last_raw = <<>>
  /\ log = {}
  /\ save_failures = 0
  /\ RcptIdle
  /\ PureIdle

\* ReceiptApp.__init__: load_customers, save_customers, _refresh_listbox.
Startup(outcome) ==
  /\ phase = "boot"
  /\ SaveAllowed(outcome, save_failures)
  /\ save_failures' = SaveCount(outcome, save_failures)
  /\ phase' = "running"
  /\ customers' = LoadCustomers(file)
  /\ file' = SaveCustomers(file, customers', outcome)
  /\ listbox' = RefreshListbox(customers')
  /\ log' = log \cup LoadLogs(file) \cup SaveLogs(outcome)
  /\ ui' = "started"
  /\ UNCHANGED <<new_customer_var, customer_name_var, last_raw, pureVars, rcptVars>>

\* The index of an existing customer with the normalized key, if any:
\* normalized in existing_keys.
KeyExists(cs, normalized) ==
  \E k \in 1..Len(cs) : Normalize(cs[k].name) = normalized

\* _add_new_customer, the operator having typed raw into the entry.
AddNewCustomer(raw, outcome) ==
  /\ phase = "running"
  /\ SaveAllowed(outcome, save_failures)
  /\ save_failures' = SaveCount(outcome, save_failures)
  /\ last_raw' = raw
  /\ IF Normalize(raw) = <<>>
     THEN /\ ui' = "empty_name"
          /\ new_customer_var' = raw
          /\ outcome = "ok"
          /\ UNCHANGED <<customers, file, listbox, log>>
     ELSE IF KeyExists(customers, Normalize(raw))
     THEN /\ ui' = "duplicate"
          /\ new_customer_var' = raw
          /\ outcome = "ok"
          /\ UNCHANGED <<customers, file, listbox, log>>
     ELSE /\ Len(customers) < MaxCustomers
          /\ customers' = Append(customers, Customer(Display(raw)))
          /\ file' = SaveCustomers(file, customers', outcome)
          /\ log' = log \cup SaveLogs(outcome)
          /\ new_customer_var' = <<>>
          /\ listbox' = RefreshListbox(customers')
          /\ ui' = "added"
  /\ UNCHANGED <<phase, customer_name_var, pureVars, rcptVars>>

\* The customers _remove_selected_customer keeps.
KeepOthers(cs, name) ==
  LET Keep(k) == Normalize(cs[k].name) # Normalize(name)
      idx == {k \in 1..Len(cs) : Keep(k)}
  IN [n \in 1..Cardinality(idx) |->
        cs[CHOOSE k \in idx : Cardinality({j \in idx : j < k}) = n - 1]]

\* _remove_selected_customer: sel = 0 is no selection, otherwise the selected
\* row; yes is the answer to the confirmation question.
RemoveSelectedCustomer(sel, yes, outcome) ==
  /\ phase = "running"
  /\ SaveAllowed(outcome, save_failures)
  /\ save_failures' = SaveCount(outcome, save_failures)
  /\ IF sel = 0
     THEN /\ ui' = "no_selection"
          /\ yes /\ outcome = "ok"
          /\ UNCHANGED <<customers, file, listbox, log, customer_name_var>>
     ELSE IF ~yes
     THEN /\ ui' = "remove_declined"
          /\ outcome = "ok"
          /\ UNCHANGED <<customers, file, listbox, log, customer_name_var>>
     ELSE /\ customers' = KeepOthers(customers, listbox[sel])
          /\ file' = SaveCustomers(file, customers', outcome)
          /\ log' = log \cup SaveLogs(outcome)
          /\ listbox' = RefreshListbox(customers')
          /\ customer_name_var' =
               IF customer_name_var = listbox[sel] THEN <<>> ELSE customer_name_var
          /\ ui' = "removed"
  /\ UNCHANGED <<phase, new_customer_var, last_raw, pureVars, rcptVars>>

\* _on_listbox_select
OnListboxSelect(sel) ==
  /\ phase = "running"
  /\ customer_name_var' = listbox[sel]
  /\ UNCHANGED <<phase, customers, file, listbox, new_customer_var, last_raw, log,
                 ui, save_failures, pureVars, rcptVars>>

\* _on_name_typing, the operator having typed the text into the name entry.
OnNameTyping(typed_raw) ==
  /\ phase = "running"
  /\ customer_name_var' = typed_raw
  /\ IF typed_raw = <<>>
     THEN listbox' = RefreshListbox(customers)
     ELSE listbox' \in SortedSetOrders(NameMatches(customers, typed_raw))
  /\ UNCHANGED <<phase, customers, file, new_customer_var, last_raw, log, ui,
                 save_failures, pureVars, rcptVars>>

Next ==
  \/ \E o \in SaveOutcomes : Startup(o)
  \/ \E raw \in RawNames, o \in SaveOutcomes : AddNewCustomer(raw, o)
  \/ \E sel \in 0..Len(listbox), yes \in BOOLEAN, o \in SaveOutcomes :
       RemoveSelectedCustomer(sel, yes, o)
  \/ \E sel \in 1..Len(listbox) : OnListboxSelect(sel)
  \/ \E t \in TypedNames : OnNameTyping(t)

Spec == Init /\ [][Next]_vars

(***************************************************************************)
(* The receipt form and print_receipt.                                     *)
(***************************************************************************)

\* Directories the receipt runs start with.
ReceiptDirectories == {<<>>, <<Customer(<<"L", "i">>)>>}

InitReceipt ==
  /\ phase = "running"
  /\ customers \in ReceiptDirectories
  /\ file = FileOf("list", [k \in 1..Len(customers) |-> ToDict(customers[k])])
  /\ listbox = RefreshListbox(customers)
  /\ new_customer_var = <<>>
  /\ customer_name_var = <<>>
  /\ ui = "started"
  /\ last_raw = <<>>
  /\ log = {}
  /\ save_failures = 0
  /\ FormIdle
  /\ fs \in [Paths -> {Absent, Full(OldText)}]
  /\ pre = Snapshot(customers, <<>>, <<>>, <<>>, <<>>, ZeroTotal, "", Absent)
  /\ PureIdle

idleDirVars == <<phase, file, listbox, new_customer_var, last_raw, save_failures>>

\* The operator fills in the form; the traces on weight_var and
\* price_per_kg_var run calculate_total.
FillForm(name, weight, price) ==
  /\ pc = "idle"
  /\ customer_name_var' = name
  /\ weight_var' = weight
  /\ price_per_kg_var' = price
  /\ piece_count_var' = <<"4">>
  /\ total_var' = ComputedTotal(weight, price)
  /\ ui' = "editing"
  /\ pre' = Snapshot(customers, name, weight, price, <<"4">>, total_var',
                     last_save_dir, Absent)
  /\ UNCHANGED <<customers, log, idleDirVars, last_save_dir, fs, pc, save_path,
                 receipt_text, last_print, pureVars>>

\* print_receipt up to the call of _write_receipt_atomic: the validations, the
\* customer lookup, the receipt text and the choice of the save path.
\* use_prev answers the question about the previous location; choice is <<>>
\* when the save dialog is cancelled, <<path>> otherwise.
PrintReceiptBegin(use_prev, choice) ==
  LET customer_name == Strip(customer_name_var)
      weight == ParseNumber(weight_var)
      price == ParseNumber(price_per_kg_var)
      hit == FindCustomerByName(customers, customer_name)
      customer == IF hit = <<>> THEN Customer(Display(customer_name)) ELSE hit[1]
      text == GenerateReceiptText(customer, piece_count_var, weight, price)
      Here(target) == Snapshot(customers, customer_name_var, weight_var,
                               price_per_kg_var, piece_count_var, total_var,
                               last_save_dir, target)
      Return(shown_as) ==
        /\ ui' = shown_as
        /\ pre' = Here(Absent)
        /\ UNCHANGED <<last_save_dir, pc, save_path, receipt_text>>
      Write(path, dir) ==
        /\ save_path' = path
        /\ last_save_dir' = dir
        /\ receipt_text' = text
        /\ pre' = Here(fs[path])
        /\ pc' = "writing"
        /\ ui' = "saving"
  IN /\ pc = "idle"
     /\ phase = "running"
     /\ last_print' = <<>>
     /\ IF customer_name = <<>> THEN Return("warn_name")
        ELSE IF LeZero(weight) THEN Return("warn_weight")
        ELSE IF LeZero(price) THEN Return("warn_price")
        ELSE IF last_save_dir # "" /\ use_prev
             THEN Write(PathOf(last_save_dir, "fis", "txt"), last_save_dir)
        ELSE IF choice = <<>> THEN Return("cancelled")
        ELSE Write(choice[1], choice[1].dir)
     /\ UNCHANGED <<customers, customer_name_var, log, idleDirVars, weight_var,
                    price_per_kg_var, piece_count_var, total_var, fs, pureVars>>

\* What follows an exception inside _write_receipt_atomic: it is logged and
\* raised again, print_receipt logs it and shows the generic error.
WriteFailed ==
  IF AtomicWriteReraises
  THEN /\ log' = log \cup {"Atomic write of receipt failed",
                           "print_receipt failed during overall process"}
       /\ ui' = "error"
       /\ pc' = "idle"
  ELSE /\ log' = log \cup {"Atomic write of receipt failed"}
       /\ ui' = ui
       /\ pc' = "saved"

rcptFrame == <<customers, customer_name_var, idleDirVars, weight_var, price_per_kg_var,
               piece_count_var, total_var, last_save_dir, save_path, receipt_text,
               pre, last_print, pureVars>>

\* tmp.write_text, open(tmp, 'w'): the temporary file is created or truncated.
OpenTmp(ok) ==
  /\ pc = "writing"
  /\ IF ok
     THEN /\ fs' = [fs EXCEPT ![WithSuffixTmp(save_path)] = Partial(receipt_text)]
          /\ pc' = "opened"
          /\ UNCHANGED <<ui, log>>
     ELSE WriteFailed /\ UNCHANGED fs
  /\ UNCHANGED rcptFrame

\* tmp.write_text, write and close: the temporary file is complete.
WriteTmp(ok) ==
  /\ pc = "opened"
  /\ IF ok
     THEN /\ fs' = [fs EXCEPT ![WithSuffixTmp(save_path)] = Full(receipt_text)]
          /\ pc' = "written"
          /\ UNCHANGED <<ui, log>>
     ELSE WriteFailed /\ UNCHANGED fs
  /\ UNCHANGED rcptFrame

\* tmp.replace(path): one atomic rename.
ReplaceTmp(ok) ==
  /\ pc = "written"
  /\ IF ok
     THEN /\ fs' = IF WithSuffixTmp(save_path) = save_path THEN fs
                   ELSE [fs EXCEPT ![save_path] = fs[WithSuffixTmp(save_path)],
                                   ![WithSuffixTmp(save_path)] = Absent]
          /\ pc' = "saved"
          /\ UNCHANGED <<ui, log>>
     ELSE WriteFailed /\ UNCHANGED fs
  /\ UNCHANGED rcptFrame

\* _do_print, the confirmation and _clear_form_after_print.
PrintAndFinish(outcome) ==
  /\ pc = "saved"
  /\ last_print' = <<outcome, fs[save_path]>>
  /\ pc' = "idle"
  /\ IF DoPrintRaises(outcome)
     THEN /\ log' = log \cup {"print_receipt failed during overall process"}
          /\ ui' = "error"
          /\ UNCHANGED <<piece_count_var, weight_var, price_per_kg_var, total_var>>
     ELSE /\ log' = log \cup (IF outcome = "ok" THEN {} ELSE {"Printing failed"})
          /\ ui' = "saved"
          /\ piece_count_var' = <<>>
          /\ weight_var' = <<>>
          /\ price_per_kg_var' = <<>>
          /\ total_var' = ZeroTotal
  /\ UNCHANGED <<customers, customer_name_var, idleDirVars, last_save_dir, fs,
                 save_path, receipt_text, pre, pureVars>>

\* The process dies while print_receipt is running.
Crash ==
  /\ pc \in {"writing", "opened", "written", "saved"}
  /\ pc' = "crashed"
  /\ UNCHANGED <<dirVars, weight_var, price_per_kg_var, piece_count_var, total_var,
                 last_save_dir, fs, save_path, receipt_text, pre, last_print,
                 pureVars>>

NextReceipt ==
  \/ \E n \in FormNames, w \in WeightTexts, p \in PriceTexts : FillForm(n, w, p)
  \/ \E u \in BOOLEAN, c \in {<<>>} \cup {<<q>> : q \in Paths} : PrintReceiptBegin(u, c)
  \/ \E ok \in BOOLEAN : OpenTmp(ok)
  \/ \E ok \in BOOLEAN : WriteTmp(ok)
  \/ \E ok \in BOOLEAN : ReplaceTmp(ok)
  \/ \E o \in PrintOutcomes : PrintAndFinish(o)
  \/ Crash

SpecReceipt == InitReceipt /\ [][NextReceipt]_vars

(***************************************************************************)
(* The name functions on their own: every text up to MaxNameLen.           *)
(***************************************************************************)
DirIdle ==
  /\ phase = "pure"
  /\ file = FileOf("missing", <<>>)
  /\ listbox = <<>>
  /\ new_customer_var = <<>>
  /\ customer_name_var = <<>>
  /\ ui = "none"
  /\ last_raw = <<>>
  /\ log = {}
  /\ save_failures = 0

InitNorm ==
  /\ DirIdle
  /\ RcptIdle
  /\ customers = <<>>
  /\ arg \in NamesUpTo(MaxNameLen)
  /\ shown = <<>>
  /\ found = <<>>
  /\ step = "input"

\* display_name = _format_for_display(raw)
FormatForDisplay ==
  /\ step = "input"
  /\ shown' = Display(arg)
  /\ step' = "output"
  /\ UNCHANGED <<dirVars, rcptVars, arg, found>>

NextNorm == FormatForDisplay

SpecNorm == InitNorm /\ [][NextNorm]_vars

(***************************************************************************)
(* The lookup on its own.                                                  *)
(***************************************************************************)

\* Most customers in a directory handed to the lookup.
MaxFindCustomers == 2

\* Names of the customers in those directories; a loaded file can hold any.
FindNames ==
  {<<>>, <<"L">>, <<"L", "i">>, <<"l", "i">>, <<"L", "i", "l">>, <<"Id">>}

\* Names looked up: print_receipt passes a stripped, non-empty text.
FindQueries ==
  {<<"l">>, <<"L">>, <<"l", "i">>, <<"l", "i", "l">>, <<"i", "l">>, <<"i">>, <<"Id">>}

InitFind ==
  /\ DirIdle
  /\ RcptIdle
  /\ customers \in UNION {[1..n -> {Customer(nm) : nm \in FindNames}] :
                            n \in 0..MaxFindCustomers}
  /\ arg \in FindQueries
  /\ shown = <<>>
  /\ found = <<>>
  /\ step = "input"

\* customer = _find_customer_by_name(self.customers, customer_name)
Find ==
  /\ step = "input"
  /\ found' = FindCustomerByName(customers, arg)
  /\ step' = "output"
  /\ UNCHANGED <<dirVars, rcptVars, arg, shown>>

NextFind == Find

SpecFind == InitFind /\ [][NextFind]_vars

(***************************************************************************)
(* The typing filter on its own.                                           *)
(***************************************************************************)

\* Longest text typed into the customer-name field.
MaxTypedLen == 2

\* Names of the customers while the operator types: display forms.
TypingNames == {<<"L">>, <<"L", "i">>, <<"L", "i", "l">>, <<"Id">>}

\* Directories of up to MaxFindCustomers customers with different keys.
TypingDirectories ==
  {cs \in UNION {[1..n -> {Customer(nm) : nm \in TypingNames}] :
                   n \in 0..MaxFindCustomers} :
     \A a, b \in 1..Len(cs) :
       a # b => Normalize(cs[a].name) # Normalize(cs[b].name)}

\* The window as __init__ leaves it, the customer file holding the directory.
InitTyping ==
  /\ phase = "running"
  /\ customers \in TypingDirectories
  /\ file = FileOf("list", [k \in 1..Len(customers) |-> ToDict(customers[k])])
  /\ listbox = RefreshListbox(customers)
  /\ new_customer_var = <<>>
  /\ customer_name_var = <<>>
  /\ ui = "started"
  /\ last_raw = <<>>
  /\ log = {}
  /\ save_failures = 0
  /\ RcptIdle
  /\ PureIdle

NextTyping == \E t \in NamesUpTo(MaxTypedLen) : OnNameTyping(t)

SpecTyping == InitTyping /\ [][NextTyping]_vars

(***************************************************************************)
(* Properties.                                                             *)
(***************************************************************************)

\* C1: the customer directory never holds two entries whose normalized names
\* are equal.
NoDuplicateKeys ==
  \A a, b \in 1..Len(customers) :
    a # b => Normalize(customers[a].name) # Normalize(customers[b].name)

\* C2: when add-customer has just stored a customer for one raw name and is
\* called again with a different raw name that has the same normalized key,
\* the second call is rejected as a duplicate and the directory is unchanged.
SecondAddRejected ==
  [][(/\ ui = "added"
      /\ last_raw' # last_raw
      /\ Normalize(last_raw') = Normalize(last_raw))
     => (ui' = "duplicate" /\ customers' = customers)]_vars

\* C3: the display form of a name has the same normalized key as the name.
DisplayKeepsKey ==
  step = "output" => Normalize(shown) = Normalize(arg)

\* C4: while a receipt is being written, and after a crash at any point of
\* the write, the target path holds what it held before or the complete new
\* receipt.
TargetNeverPartial ==
  pc \in {"writing", "opened", "written", "saved", "crashed"} =>
    fs[save_path] \in {pre.target, Full(receipt_text)}

\* The state print_receipt leaves after a failed receipt write, apart from
\* the remembered save directory.
FailedWriteLeaves ==
  /\ "Atomic write of receipt failed" \in log
  /\ "print_receipt failed during overall process" \in log
  /\ last_print = <<>>
  /\ pc = "idle"
  /\ customers = pre.customers
  /\ customer_name_var = pre.customer_name_var
  /\ weight_var = pre.weight_var
  /\ price_per_kg_var = pre.price_per_kg_var
  /\ piece_count_var = pre.piece_count_var
  /\ total_var = pre.total_var

\* C5 as stated: after a failed receipt write the error is logged by the
\* writer and by print_receipt and reported, nothing is printed, the form is
\* not cleared and all in-memory state, the remembered save directory
\* included, is as before; a confirmation is shown only for a written receipt.
FailedWriteChangesNothing ==
  /\ ui = "error" => (FailedWriteLeaves /\ last_save_dir = pre.last_save_dir)
  /\ ui = "saved" => fs[save_path] = Full(receipt_text)

\* C5 as amended: the same, except that the remembered save directory is
\* either as before or the directory of the path chosen in this submit.
FailedWriteKeepsFormAndDirectory ==
  /\ ui = "error" =>
       (FailedWriteLeaves /\ last_save_dir \in {pre.last_save_dir, save_path.dir})
  /\ ui = "saved" => fs[save_path] = Full(receipt_text)

\* C5 witness: a submit that chose a new save location has failed in the write.
FailedWriteAfterDialogReached ==
  ui = "error" /\ last_save_dir # pre.last_save_dir

\* C6: a print attempt sees the complete receipt at the final path, and
\* whatever its outcome the file stays, the confirmation is shown and the
\* entry fields are cleared.
PrintNeverBlocksSave ==
  (last_print # <<>> /\ ui # "editing") =>
    /\ last_print[2] = Full(receipt_text)
    /\ fs[save_path] = Full(receipt_text)
    /\ ui = "saved"
    /\ pc = "idle"
    /\ piece_count_var = <<>>
    /\ weight_var = <<>>
    /\ price_per_kg_var = <<>>
    /\ total_var = ZeroTotal

\* C6 witness: a print attempt timed out and the submit ended confirmed.
PrintTimeoutReached ==
  last_print # <<>> /\ last_print[1] = "timeout" /\ ui = "saved"

\* C7: a press of the receipt button with a blank customer name, or with a
\* weight or unit price that is not > 0, is blocked with a warning: nothing
\* is written or printed and the form stays as it is.
InvalidSubmitBlocked ==
  [][(/\ pc = "idle"
      /\ ui' # "editing"
      /\ ~(/\ Strip(customer_name_var) # <<>>
           /\ Positive(ParseNumber(weight_var))
           /\ Positive(ParseNumber(price_per_kg_var))))
     => (/\ ui' \in {"warn_name", "warn_weight", "warn_price"}
         /\ pc' = "idle"
         /\ fs' = fs
         /\ last_print' = <<>>
         /\ UNCHANGED <<customer_name_var, weight_var, price_per_kg_var,
                        piece_count_var, total_var, last_save_dir>>)]_vars

\* C8: after every completed add-customer or remove-customer action the
\* customer file holds exactly the in-memory directory.
PersistedOnMutation ==
  ui \in {"added", "removed"} =>
    file = FileOf("list", [k \in 1..Len(customers) |-> ToDict(customers[k])])

\* C9: start-up turns a missing or unparseable customer file into an empty
\* directory, and when start-up has completed the customer file exists and
\* holds the loaded directory.
FileHoldsDirectoryAfterStartup ==
  [][(phase = "boot" /\ phase' = "running")
     => (/\ file.kind \in {"missing", "garbage"} => customers' = <<>>
         /\ file'.kind = "list"
         /\ LoadCustomers(file') = customers')]_vars

\* C10: the lookup returns the first record whose normalized name equals the
\* normalized query when there is one; otherwise the best-scoring record among
\* those with similarity >= 0.7; otherwise none.
FindExactThenFuzzy ==
  step = "output" =>
    LET key   == Normalize(arg)
        Sim(k) == Ratio(Normalize(customers[k].name), key)
        exact == {k \in 1..Len(customers) : Normalize(customers[k].name) = key}
        fuzzy == {k \in 1..Len(customers) : RatioAtLeast(Sim(k), 7)}
    IN /\ exact # {} =>
            found = <<customers[CHOOSE k \in exact : \A j \in exact : k <= j]>>
       /\ (exact = {} /\ fuzzy # {}) =>
            \E k \in fuzzy : /\ found = <<customers[k]>>
                             /\ \A j \in fuzzy : ~RatioLess(Sim(k), Sim(j))
       /\ (exact = {} /\ fuzzy = {}) => found = <<>>

\* C10 witness: the lookup returned the identity-equal record although another
\* record with a different key scores at least 0.7 against the query.
FindExactBeatsFuzzyReached ==
  /\ step = "output"
  /\ found # <<>>
  /\ Normalize(found[1].name) = Normalize(arg)
  /\ \E k \in 1..Len(customers) :
       /\ Normalize(customers[k].name) # Normalize(arg)
       /\ RatioAtLeast(Ratio(Normalize(customers[k].name), Normalize(arg)), 7)

\* What a confirmed remove of the name target does to the directory: no
\* remaining customer has the target's normalized key, and the customers with
\* a different key are all kept, in their order.
RemovedExactly(target) ==
  /\ \A k \in 1..Len(customers') :
       Normalize(customers'[k].name) # Normalize(target)
  /\ \E f \in [1..Len(customers') -> 1..Len(customers)] :
       /\ \A a, b \in 1..Len(customers') : a < b => f[a] < f[b]
       /\ \A n \in 1..Len(customers') : customers'[n] = customers[f[n]]
       /\ {f[n] : n \in 1..Len(customers')}
            = {k \in 1..Len(customers) :
                 Normalize(customers[k].name) # Normalize(target)}

\* A step of _remove_selected_customer in which the operator confirmed.
ConfirmedRemove == ui' = "removed" /\ customers' # customers

\* The directory part of C11 alone.
RemoveDeletesKey ==
  [][ConfirmedRemove =>
       \E sel \in 1..Len(listbox) : RemovedExactly(listbox[sel])]_vars

\* C11: a confirmed remove deletes every customer whose normalized name equals
\* the normalized name of the selected row and no other, keeps the others in
\* their order, and leaves the customer file holding the resulting directory.
RemoveDeletesKeyAndPersists ==
  [][ConfirmedRemove =>
       /\ \E sel \in 1..Len(listbox) : RemovedExactly(listbox[sel])
       /\ file' = FileOf("list",
                         [k \in 1..Len(customers') |-> ToDict(customers'[k])])]_vars

\* The names the list shows, and the names the typed text selects: those
\* whose normalized form contains the normalized text, and those whose
\* normalized form has similarity >= 0.6 to it.
ShownNames == {listbox[k] : k \in 1..Len(listbox)}

AllNames == {customers[k].name : k \in 1..Len(customers)}

ContainingNames(typed) ==
  {n \in AllNames : IsSubstring(Normalize(typed), Normalize(n))}

SimilarNames(typed) ==
  {n \in AllNames : RatioAtLeast(Ratio(Normalize(n), Normalize(typed)), 6)}

\* The list for a typed text with a non-empty normalized form.
ShowsUnion(typed) ==
  /\ ContainingNames(typed) \subseteq ShownNames
  /\ ShownNames \subseteq ContainingNames(typed) \cup SimilarNames(typed)
  /\ Cardinality(SimilarNames(typed)) <= 10 => SimilarNames(typed) \subseteq ShownNames

\* C12 for the texts that are empty or have a non-empty normalized form.
TypingShowsUnionUnlessBlank ==
  IF customer_name_var = <<>> THEN ShownNames = AllNames
  ELSE Normalize(customer_name_var) # <<>> => ShowsUnion(customer_name_var)

\* C12: with the empty text typed the list shows every customer name; with a
\* non-empty text typed it shows exactly the names whose normalized form
\* contains the normalized text together with the (at most 10) names whose
\* normalized form has similarity >= 0.6 to it.
TypingShowsUnion ==
  IF customer_name_var = <<>> THEN ShownNames = AllNames
  ELSE ShowsUnion(customer_name_var)
====
